---------------------------- MODULE Spec2Model ----------------------------
(***************************************************************************)
(* The virtual (simulated) trading path of BybitClient                     *)
(* (src/bybit_client.py): the in-memory order and position lists, the      *)
(* virtual wallet record and its persisted copy in capital.json.           *)
(*                                                                         *)
(* Units.  Quantities are whole contracts.  Prices of positions, of the    *)
(* place_order argument and of candles are in cents (1/100); a price       *)
(* argument of 0 stands for None / 0 / 0.0, which the code treats alike    *)
(* (`price or 1.0`, `price or 0.0`).  Wallet amounts, margins and PnL are   *)
(* in cents.  The `price` field of an order is in 1/10000 (the protective  *)
(* prices are rounded to 4 decimals by the code).                          *)
(***************************************************************************)
EXTENDS Integers, Sequences, FiniteSets, TLC

VARIABLES
    use_real,     \* self.use_real: the process is configured for real trading
    client,       \* self.client: "None" (no exchange handle) or "HTTP"
    wallet,       \* self.virtual_wallet["virtual"] (the keys present are in .has)
    file,         \* the "virtual" record persisted in capital.json
    orders,       \* self._virtual_orders
    positions,    \* self._virtual_positions
    exchange,     \* the order requests handed to the exchange client, in order
    trades,       \* the trade records added to the trade store, in order
    closures,     \* the closed trades reported to the trade store, in order
    clock,        \* the millisecond of the last order id issued (0: none yet)
    budget,       \* the number of calls the run may still make on the client
    phase,        \* run_loop: "Countdown" or, inside run_once, "Running"
    remaining,    \* run_loop: the seconds of the countdown still to sleep
    outcome,      \* run_loop: how the last run_once ended ("none": none yet)
    disk,         \* capital.json: the document it holds, or what a reader finds
    memory,       \* the in-memory copy of the document of each writer
    pending,      \* the write to capital.json that is under way, if any
    seen,         \* what the last load of capital.json returned
    ledger        \* the document with every capital write so far applied

vars == <<use_real, client, wallet, file, orders, positions, exchange, trades,
          closures, clock, budget, phase, remaining, outcome, disk, memory, pending,
          seen, ledger>>

\* the variables of run_loop and of the capital document
loop_vars == <<phase, remaining, outcome>>
capital_vars == <<disk, memory, pending, seen, ledger>>

\* run_loop not yet entered
LoopIdle == phase = "Countdown" /\ remaining = 0 /\ outcome = "none"

\* the keys of a capital record
CapitalKeys == {"capital", "available", "used", "start_balance", "currency"}

\* a capital record with the keys `has`
CapitalRecord(has, capital, available, used, start_balance, currency) ==
    [has |-> has, capital |-> capital, available |-> available, used |-> used,
     start_balance |-> start_balance, currency |-> currency]

\* {} : no key at all
NoRecord == CapitalRecord({}, 0, 0, 0, 0, "none")

\* dict.get(k, default)
Field(rec, k, default) == IF k \in rec.has THEN rec[k] ELSE default

\* the document of capital.json: the "real" and the "virtual" record (no
\* record and {} alike) and whether it has the "USDT" key of the default
\* wallet of BybitClient
Document(real, virtual, usdt) == [real |-> real, virtual |-> virtual, USDT |-> usdt]

EmptyDocument == Document(NoRecord, NoRecord, FALSE)

\* capital.json: "missing", "truncated" (open(..., "w") has emptied the file
\* and json.dump has not finished: the file is empty or ends in the middle of
\* the document) or "whole", holding the document doc
File(state, doc) == [state |-> state, doc |-> doc]

Missing == File("missing", EmptyDocument)
Truncated == File("truncated", EmptyDocument)
Whole(doc) == File("whole", doc)

\* no write under way
NoWrite == [by |-> "nobody", doc |-> EmptyDocument]

\* what a load returned: nothing yet, the document read (of which the caller
\* gets the record of the mode) or the exception raised
Seen(status, mode, doc) == [status |-> status, mode |-> mode, doc |-> doc]

NothingSeen == Seen("nothing", "all", EmptyDocument)

\* the capital document not looked at
CapitalIdle ==
    /\ disk = Missing /\ memory = <<>> /\ pending = NoWrite
    /\ seen = NothingSeen /\ ledger = Missing

-----------------------------------------------------------------------------
(* Bounds of the model *)

\* the number of calls (and restarts) of a run
MaxCalls == 3

(* Inputs *)

Symbols == {"BTCUSDT", "ETHUSDT"}
Sides == {"Buy", "Sell"}
\* the (qty, price) pairs of the calls: 1 @ 100.00, 20 @ 100.00 (its margin is
\* the whole default capital) and 1 with no price
Intents == {<<1, 10000>>, <<20, 10000>>, <<1, 0>>}
LastPrices == {11000}
Candles == {<<>>} \cup {<<p>> : p \in LastPrices}

-----------------------------------------------------------------------------
(* The wallet record: a dict whose keys may be absent *)

WalletKeys == {"capital", "available", "used"}

EmptyWallet == [has |-> {}, capital |-> 0, available |-> 0, used |-> 0]

\* dict.get(k, 0)
Get(w, k) == IF k \in w.has THEN w[k] ELSE 0

\* w[k] = v
Put(w, k, v) == [w EXCEPT !.has = @ \cup {k}, ![k] = v]

Max(a, b) == IF a >= b THEN a ELSE b

\* _load_virtual_wallet when capital.json is missing: the default wallet has
\* only a "USDT" entry, so the "virtual" record is absent.
DefaultWallet == EmptyWallet

\* capital.json as TradingEngine.load_capital initialises it: the virtual
\* record has capital 100.0 and neither "available" nor "used".
EngineInitialWallet == [has |-> {"capital"}, capital |-> 10000, available |-> 0, used |-> 0]

\* capital.json holding a full capital record (capital, available, used), the
\* shape wallet_balance / get_wallet_balance read back.
FullWallet == [has |-> WalletKeys, capital |-> 10000, available |-> 10000, used |-> 0]

InitialFiles == {DefaultWallet, EngineInitialWallet, FullWallet}

-----------------------------------------------------------------------------
(* Pure functions *)

Leverage == 20

\* round(n / d) to the nearest integer, ties to even (Python's round)
RoundDiv(n, d) ==
    LET q == n \div d
        r == n % d
    IN  IF 2 * r < d THEN q
        ELSE IF 2 * r > d THEN q + 1
        ELSE IF q % 2 = 0 THEN q ELSE q + 1

\* `price or 1.0`, in cents
PriceUsed(price) == IF price = 0 THEN 100 ELSE price

\* calculate_margin: round(qty * price / leverage, 2), in cents
calculate_margin(qty, price, leverage) == RoundDiv(qty * price, leverage)

\* get_chart_data: without a client _send_request returns an empty result and
\* there are no candles; with one the exchange's answer decides.
get_chart_data(c, candles) == IF c = "None" THEN <<>> ELSE candles

\* calculate_virtual_pnl with the formula of the long side on both sides
calculate_virtual_pnl_long(pos, candles) ==
    IF candles = <<>> THEN 0
    ELSE (candles[Len(candles)] - pos.price) * pos.qty

\* calculate_virtual_pnl, in cents
calculate_virtual_pnl(pos, candles) ==
    IF candles = <<>> THEN 0
    ELSE LET last_price == candles[Len(candles)]
         IN  IF pos.side = "Buy"
             THEN (last_price - pos.price) * pos.qty
             ELSE (pos.price - last_price) * pos.qty

\* the first of the indices found by a search of a list, 0 when there is none
First(found) ==
    IF found = {} THEN 0
    ELSE CHOOSE i \in found : \A j \in found : i <= j

\* next(o for o in self._virtual_orders if symbol, side match and status open)
existing_order(os, symbol, side) ==
    First({i \in 1..Len(os) : /\ os[i].symbol = symbol
                               /\ os[i].side = side
                               /\ os[i].status = "open"})

\* the first position on symbol, whatever its status
any_position(ps, symbol) ==
    First({i \in 1..Len(ps) : ps[i].symbol = symbol})

\* the position close_virtual_position picks: the first open one on symbol
open_position(ps, symbol) ==
    First({i \in 1..Len(ps) : ps[i].symbol = symbol /\ ps[i].status = "open"})

-----------------------------------------------------------------------------
(* Records *)

\* int(time.time() * 1000) as the next call may read it: the millisecond of
\* the last order id again, or a later one
Times == IF clock = 0 THEN {1} ELSE {clock, clock + 1}

TpMultiplier == 102
SlMultiplier == 98

\* virtual_order of place_order
ParentOrder(id, symbol, side, qty, price, margin) ==
    [order_id |-> id, suffix |-> "", symbol |-> symbol, side |-> side,
     qty |-> qty, price |-> price * 100, status |-> "open",
     margin |-> margin, has_margin |-> TRUE, reduce_only |-> FALSE]

\* tp_order / sl_order of place_order: no "margin" key, the opposite side,
\* price round(entry_price * multiplier, 4)
ProtectiveOrder(id, suffix, symbol, side, qty, price, multiplier) ==
    [order_id |-> id, suffix |-> suffix, symbol |-> symbol,
     side |-> IF side = "Buy" THEN "Sell" ELSE "Buy",
     qty |-> qty, price |-> PriceUsed(price) * multiplier, status |-> "open",
     margin |-> 0, has_margin |-> FALSE, reduce_only |-> TRUE]

\* the position place_order appends: "price": price or 0.0
NewPosition(id, symbol, side, qty, price, margin) ==
    [symbol |-> symbol, side |-> side, qty |-> qty, price |-> price,
     margin |-> margin, status |-> "open", order_id |-> id,
     realized_pnl |-> 0, has_pnl |-> FALSE, fill_time |-> FALSE]

-----------------------------------------------------------------------------
(* close_virtual_position *)

\* the wallet update of close_virtual_position
close_wallet(w, margin, pnl) ==
    LET w1 == Put(w, "used", Max(Get(w, "used") - margin, 0))
    IN  Put(w1, "available", Get(w1, "available") + margin + pnl)

\* a close that records the PnL and leaves the status as it was
close_position_still_open(pos, pnl) ==
    [pos EXCEPT !.realized_pnl = pnl, !.has_pnl = TRUE]

\* the position after close_virtual_position marked it
close_position(pos, pnl) ==
    [pos EXCEPT !.status = "closed", !.realized_pnl = pnl, !.has_pnl = TRUE]

\* close_virtual_position(symbol) on positions ps and wallet w, the market
\* data answering with candles: the new positions, the new wallet, the index
\* of the position closed (0: none found, nothing changes) and its PnL.
close_found(ps, w, i, pnl) ==
    [positions |-> [ps EXCEPT ![i] = close_position(ps[i], pnl)],
     wallet |-> close_wallet(w, ps[i].margin, pnl),
     closed |-> i, pnl |-> pnl, saved |-> TRUE]

close_at(ps, w, i, candles) ==
    IF i = 0
    THEN [positions |-> ps, wallet |-> w, closed |-> 0, pnl |-> 0, saved |-> FALSE]
    ELSE close_found(ps, w, i, calculate_virtual_pnl(ps[i], candles))

close_virtual_position(ps, w, symbol, candles) ==
    close_at(ps, w, open_position(ps, symbol), candles)

\* the last prices the market data may answer when close_virtual_position
\* asks a second time, for the exit price: get_chart_data is called once by
\* calculate_virtual_pnl and once more for the report
ExitPrices == {11000, 12000}
ExitCandles == {<<>>} \cup {<<p>> : p \in ExitPrices}

\* the report of close_virtual_position on the position ps[i] it closed:
\* `if candles:` db_manager.close_trade(order_id, exit_price, pnl), and no
\* report otherwise
close_trade(ps, i, candles) ==
    IF i = 0 \/ candles = <<>> THEN <<>>
    ELSE <<[order_id |-> ps[i].order_id,
            exit_price |-> candles[Len(candles)],
            pnl |-> ps[i].realized_pnl]>>

\* the outcome of close_virtual_position(symbol) called in the current state
Closed(symbol, candles) ==
    close_virtual_position(positions, wallet, symbol, get_chart_data(client, candles))

Close(symbol, candles) ==
    \E c \in {Closed(symbol, candles)} :
        /\ budget > 0
        /\ budget' = budget - 1
        /\ positions' = c.positions
        /\ wallet' = c.wallet
        /\ file' = IF c.saved THEN c.wallet ELSE file
        /\ \E exit \in ExitCandles :
              closures' = closures \o close_trade(c.positions, c.closed,
                                                  get_chart_data(client, exit))
        /\ UNCHANGED <<loop_vars, capital_vars, use_real, client, orders, exchange, trades, clock>>

-----------------------------------------------------------------------------
(* place_order, virtual path *)

\* the wallet update of the modification branch
modify_wallet(w, margin_diff) ==
    LET w1 == Put(w, "available", w.available - margin_diff)
    IN  Put(w1, "used", w1.used + margin_diff)

\* existing_order.update(...) of the modification branch
modify_order(o, qty, price, margin) ==
    [o EXCEPT !.qty = qty, !.price = price * 100, !.margin = margin]

\* the loop over positions of the modification branch: the first position
\* whose order_id is that of the order is updated, whatever its status
modify_positions(ps, id, qty, price, margin) ==
    LET i == First({j \in 1..Len(ps) : ps[j].order_id = id})
    IN  IF i = 0 THEN ps
        ELSE [ps EXCEPT ![i] = [@ EXCEPT !.qty = qty, !.price = price, !.margin = margin]]

\* the wallet update of the new-position branch, applied to the wallet as
\* close_virtual_position left it; pnl is the realized PnL of the position
\* that call closed (0 when it closed none)
open_wallet(w, margin, pnl) ==
    LET w1 == Put(w, "available", Get(w, "available") - margin + pnl)
    IN  Put(w1, "used", Get(w1, "used") + margin)

\* the validation of the new-position branch
insufficient(margin, available_capital) == margin > available_capital

\* what a call returns or raises (result), the state it leaves, whether it
\* saved the wallet, the margin it computed and the index of the position
\* it closed (0: none)
Return(result, w, saved, os, ps, margin, closed) ==
    [result |-> result, wallet |-> w, saved |-> saved, orders |-> os,
     positions |-> ps, margin |-> margin, closed |-> closed]

\* the modification branch of place_order: os[e] is the existing order
modify_branch(w, os, ps, e, qty, price, margin) ==
    IF ~os[e].has_margin
    THEN Return("KeyError", w, FALSE, os, ps, margin, 0)
    ELSE LET margin_diff == margin - os[e].margin
         IN  IF margin_diff > Get(w, "available")
             THEN Return("insufficient_modification", w, FALSE, os, ps, margin, 0)
             ELSE IF "available" \notin w.has
             THEN Return("KeyError", w, FALSE, os, ps, margin, 0)
             ELSE IF "used" \notin w.has
             THEN Return("KeyError", Put(w, "available", w.available - margin_diff),
                         FALSE, os, ps, margin, 0)
             ELSE Return("modified", modify_wallet(w, margin_diff), TRUE,
                         [os EXCEPT ![e] = modify_order(@, qty, price, margin)],
                         modify_positions(ps, os[e].order_id, qty, price, margin),
                         margin, 0)

\* the new-position branch of place_order after its validation: c is what
\* close_virtual_position(symbol) did
open_branch(os, c, symbol, side, qty, price, margin, now) ==
    Return("opened", open_wallet(c.wallet, margin, c.pnl), TRUE,
           os \o <<ParentOrder(now, symbol, side, qty, price, margin),
                   ProtectiveOrder(now, "_TP", symbol, side, qty, price, TpMultiplier),
                   ProtectiveOrder(now, "_SL", symbol, side, qty, price, SlMultiplier)>>,
           Append(c.positions, NewPosition(now, symbol, side, qty, price, margin)),
           margin, c.closed)

\* the virtual path of place_order once margin and existing order e are known
place_order_with(w, os, ps, symbol, side, qty, price, candles, now, margin, e) ==
    IF e # 0
    THEN modify_branch(w, os, ps, e, qty, price, margin)
    ELSE IF insufficient(margin, Get(w, "available"))
    THEN Return("insufficient", w, FALSE, os, ps, margin, 0)
    ELSE open_branch(os, close_virtual_position(ps, w, symbol, candles),
                     symbol, side, qty, price, margin, now)

\* place_order(symbol, side, _, qty, price) on the wallet w, the orders os and
\* the positions ps; candles is what get_chart_data answers and now the
\* reading of int(time.time() * 1000)
place_order(w, os, ps, symbol, side, qty, price, candles, now) ==
    place_order_with(w, os, ps, symbol, side, qty, price, candles, now,
                     calculate_margin(qty, PriceUsed(price), Leverage),
                     existing_order(os, symbol, side))

\* the outcome of place_order(symbol, side, _, qty, price) called in the
\* current state
Placed(symbol, side, qty, price, candles, now) ==
    place_order(wallet, orders, positions, symbol, side, qty, price,
                get_chart_data(client, candles), now)

\* the record place_order hands to db_manager.add_trade once the position is
\* open, and the one run_once adds for an order it accepts
TradeRecord(id, symbol, virtual) ==
    [order_id |-> id, symbol |-> symbol, virtual |-> virtual]

\* `if self.use_real and self.client`: the call takes the real path
RealPath == use_real /\ client # "None"

PlaceOrder(symbol, side, qty, price, candles, now) ==
    \E r \in {Placed(symbol, side, qty, price, candles, now)} :
        /\ ~RealPath
        /\ budget > 0
        /\ budget' = budget - 1
        /\ wallet' = r.wallet
        /\ file' = IF r.saved THEN r.wallet ELSE file
        /\ orders' = r.orders
        /\ positions' = r.positions
        /\ clock' = IF r.result = "opened" THEN now ELSE clock
        /\ trades' = IF r.result = "opened"
                      THEN Append(trades, TradeRecord(now, symbol, TRUE))
                      ELSE trades
        /\ \E exit \in ExitCandles :
              closures' = closures \o close_trade(r.positions, r.closed,
                                                  get_chart_data(client, exit))
        /\ UNCHANGED <<loop_vars, capital_vars, use_real, client, exchange>>

-----------------------------------------------------------------------------
(* monitor_virtual_orders *)

\* the first loop: every open order is filled
filled_orders(os) ==
    [i \in 1..Len(os) |->
        IF os[i].status = "open" THEN [os[i] EXCEPT !.status = "filled"] ELSE os[i]]

\* a housekeeping that settles the open positions instead of activating them
settled_positions(ps) ==
    [i \in 1..Len(ps) |->
        IF ps[i].status = "open"
        THEN [ps[i] EXCEPT !.status = "closed", !.fill_time = TRUE] ELSE ps[i]]

\* the second loop: every open position without a fill_time gets one
active_positions(ps) ==
    [i \in 1..Len(ps) |->
        IF ps[i].status = "open" /\ ~ps[i].fill_time
        THEN [ps[i] EXCEPT !.fill_time = TRUE] ELSE ps[i]]

MonitorVirtualOrders ==
    /\ budget > 0
    /\ orders' = filled_orders(orders)
    /\ positions' = active_positions(positions)
    /\ budget' = budget - 1
    /\ UNCHANGED <<closures, loop_vars, capital_vars, use_real, client, wallet, file, exchange, trades, clock>>

-----------------------------------------------------------------------------
(* The exchange gateway: _send_request *)

\* what the exchange client's method does when it is called: it throws,
\* returns something that is not a dict, returns a dict whose retCode is not
\* 0, or returns a dict with retCode 0
RawReplies == {"throws", "not_dict", "error_code", "ok"}

\* the "result" of a reply: a dict (dict = TRUE) with an orderId (0: none)
\* and a list of order statuses, or a value that is not a dict
EmptyResult == [dict |-> TRUE, orderId |-> 0, list |-> <<>>]

Statuses == {"New", "PartiallyFilled", "Filled", "Rejected"}

ExchangeOrderId == 7

NotADict == [dict |-> FALSE, orderId |-> 0, list |-> <<>>]

\* the results of a reply to place_order: nothing, not a dict, an order id
PlacePayloads ==
    {EmptyResult, NotADict,
     [dict |-> TRUE, orderId |-> ExchangeOrderId, list |-> <<>>]}

\* the results of a reply to get_orders: nothing, not a dict, one order
PollPayloads ==
    {EmptyResult, NotADict}
    \cup {[dict |-> TRUE, orderId |-> 0, list |-> <<st>>] : st \in Statuses}

Payloads == PlacePayloads \cup PollPayloads

\* what _send_request gives back: whether it raised, the result, and whether
\* the client's method was called (the request reached the exchange client)
Answer(raised, result, called) ==
    [raised |-> raised, result |-> result, called |-> called]

\* _send_request without its try / except
_send_request_unguarded(c, method, callable, raw, payload) ==
    IF c = "None" \/ method = "get_order" \/ ~callable
    THEN Answer(FALSE, EmptyResult, FALSE)
    ELSE IF raw = "throws" THEN Answer(TRUE, EmptyResult, TRUE)
    ELSE IF raw = "ok" THEN Answer(FALSE, payload, TRUE)
    ELSE Answer(FALSE, EmptyResult, TRUE)

\* _send_request(method, params) on client c; callable says whether the
\* client has a callable attribute of that name, raw what the method does and
\* payload is the "result" of its reply (`raw_result.get("result") or {}`)
_send_request(c, method, callable, raw, payload) ==
    IF c = "None" THEN Answer(FALSE, EmptyResult, FALSE)
    ELSE IF method = "get_order" THEN Answer(FALSE, EmptyResult, FALSE)
    ELSE IF ~callable THEN Answer(FALSE, EmptyResult, FALSE)
    ELSE IF raw = "throws" THEN Answer(FALSE, EmptyResult, TRUE)
    ELSE IF raw = "not_dict" THEN Answer(FALSE, EmptyResult, TRUE)
    ELSE IF raw = "error_code" THEN Answer(FALSE, EmptyResult, TRUE)
    ELSE Answer(FALSE, payload, TRUE)

\* everything _send_request(method, _) may give back on client c when the
\* exchange's results are among payloads
Answers(c, method, payloads) ==
    {_send_request(c, method, callable, raw, payload) :
        callable \in BOOLEAN, raw \in RawReplies, payload \in payloads}

\* extract_response of what _send_request gave back: its result when that is
\* a dict, an empty dict otherwise
extract_response(a) == IF a.result.dict THEN a.result ELSE EmptyResult

-----------------------------------------------------------------------------
(* place_order, real path *)

\* an order request handed to the exchange client
Request(method, symbol, side, qty, reduce_only) ==
    [method |-> method, symbol |-> symbol, side |-> side, qty |-> qty,
     reduce_only |-> reduce_only]

\* the methods BybitClient defines that take part in order placement
ClientAttributes ==
    {"_send_request", "get_qty_step", "place_order", "place_tp_sl_limit_orders",
     "close_virtual_position", "calculate_virtual_pnl", "monitor_virtual_orders"}

\* the two reduce-only limit orders place_tp_sl_limit_orders submits on the
\* real path
place_tp_sl_limit_orders(symbol, side, qty) ==
    LET opposite_side == IF side = "Buy" THEN "Sell" ELSE "Buy"
    IN  <<Request("place_order", symbol, opposite_side, qty, TRUE),
          Request("place_order", symbol, opposite_side, qty, TRUE)>>

RealTpMultiplier == 130
RealSlMultiplier == 85

\* tp_price and sl_price of place_tp_sl_limit_orders, in 1/10000, for an
\* entry price in cents: round(entry_price * multiplier, 4) whatever the side
tp_sl_prices(entry_price) ==
    [tp |-> entry_price * RealTpMultiplier, sl |-> entry_price * RealSlMultiplier]

\* self.place_tp_sl(symbol, qty, side, entry_price) inside the try of
\* place_order: the client has no attribute of that name, the AttributeError
\* is caught and logged, and nothing is submitted
place_tp_sl(symbol, qty, side) ==
    IF "place_tp_sl" \in ClientAttributes
    THEN place_tp_sl_limit_orders(symbol, side, qty)
    ELSE <<>>

\* the statuses on which place_order goes on to the protective orders
ConfirmedStatuses == {"New", "PartiallyFilled", "Filled"}

\* a status check that lets every status through
confirmed_any(order_status) == order_status \in Statuses

\* the status check of place_order
confirmed(order_status) == order_status \in ConfirmedStatuses

\* what a call on the real path returns or raises (result) and the order
\* requests it handed to the exchange client, in order
RealReturn(result, sent) == [result |-> result, sent |-> sent]

\* the requests of a call whose submitting request reached the client or not
Submitted(a, request) == IF a.called THEN <<request>> ELSE <<>>

\* the status poll of place_order and what follows it; sent is what the call
\* has submitted so far
poll_status(symbol, side, qty, sent, status_data) ==
    IF ~status_data.dict THEN RealReturn("status_exception", sent)
    ELSE IF status_data.list = <<>> THEN RealReturn("no_orders", sent)
    ELSE IF confirmed(status_data.list[1])
    THEN RealReturn("confirmed", sent \o place_tp_sl(symbol, qty, side))
    ELSE RealReturn("not_active", sent)

\* the real path of place_order(symbol, side, _, qty, price).  x is what the
\* exchange does during the call: x.amend, an order_link_id was given and an
\* open order matches it; x.qty_step, the quantity step of the symbol;
\* x.place, what _send_request gives back for the submitting request;
\* x.poll, what it gives back for get_orders.
real_place_order(symbol, side, qty, price, x) ==
    IF x.amend
    THEN RealReturn("amended",
                    Submitted(x.place, Request("amend_active_order", symbol, side, qty, FALSE)))
    ELSE IF x.qty_step = 0 THEN RealReturn("ZeroDivisionError", <<>>)
    ELSE LET sent == Submitted(x.place, Request("place_order", symbol, side, qty, FALSE))
         IN  IF extract_response(x.place).orderId = 0
             THEN RealReturn("no_order_id", sent)
             ELSE poll_status(symbol, side, qty, sent, x.poll.result)

QtySteps == {0, 1}

\* what the exchange may do during one call of place_order on client c
Behaviours(c) ==
    [amend : BOOLEAN, qty_step : QtySteps,
     place : Answers(c, "place_order", PlacePayloads),
     poll : Answers(c, "get_orders", PollPayloads)]

\* the outcome of place_order(symbol, side, _, qty, price) on the real path
PlacedReal(symbol, side, qty, price, x) ==
    real_place_order(symbol, side, qty, price, x)

PlaceOrderReal(symbol, side, qty, price, x) ==
    \E r \in {PlacedReal(symbol, side, qty, price, x)} :
        /\ RealPath
        /\ budget > 0
        /\ budget' = budget - 1
        /\ exchange' = exchange \o r.sent
        /\ UNCHANGED <<closures, loop_vars, capital_vars, use_real, client, wallet, file, orders, positions, trades, clock>>

-----------------------------------------------------------------------------
(* The real path: the quantity sent to the exchange *)
(* Quantities and lot steps are in ten-thousandths; the arithmetic is exact *)
(* (the binary rounding of float(qty) / qty_step is not modelled).          *)

\* one unit, in ten-thousandths
One == 10000

\* 10 ^ n
RECURSIVE Pow10(_)
Pow10(n) == IF n = 0 THEN 1 ELSE 10 * Pow10(n - 1)

\* the lot steps get_qty_step may return: 0.001, 0.01, 0.5 and 1
LotSteps == {10, 100, 5000, 10000}

\* the quantities asked for: 1.2345, 2.4 and 1.3
RequestedQtys == {12345, 24000, 13000}

\* the decimal places the number x has (1.0 has none, 0.5 one, 0.01 two)
Decimals(x) == CHOOSE k \in 0..4 : /\ (x * Pow10(k)) % One = 0
                                   /\ \A j \in 0..(k - 1) : (x * Pow10(j)) % One # 0

\* str(x) of a float: the digits after the point, of which there is at least
\* one ("1.0", "0.5", "0.01")
str_fraction(x) == [i \in 1..Max(Decimals(x), 1) |-> (x \div Pow10(4 - i)) % 10]

\* qty = round(float(qty) / qty_step) * qty_step
quantize(qty, qty_step) == RoundDiv(qty, qty_step) * qty_step

\* precision = str(qty_step)[::-1].find('.'): the characters after the point
\* of str(qty_step), qty_step being the float get_qty_step returns
precision(qty_step) == Len(str_fraction(qty_step))

\* f"{qty:.{precision}f}": the whole part and the digits after the point
format(qty, places) ==
    [whole |-> RoundDiv(qty, Pow10(4 - places)) \div Pow10(places),
     decimals |-> [i \in 1..places |->
                     (RoundDiv(qty, Pow10(4 - places)) \div Pow10(places - i)) % 10]]

\* formatted_qty of place_order
formatted_qty(qty, qty_step) == format(quantize(qty, qty_step), precision(qty_step))

-----------------------------------------------------------------------------
(* The process *)

\* BybitClient.__init__ in a process not configured for real trading: empty
\* order and position lists, the wallet loaded from capital.json (written
\* back when it was missing).
Start ==
    /\ use_real = FALSE
    /\ LoopIdle /\ CapitalIdle
    /\ exchange = <<>>
    /\ trades = <<>>
    /\ closures = <<>>
    /\ client \in {"None", "HTTP"}
    /\ file \in InitialFiles
    /\ wallet = file
    /\ orders = <<>>
    /\ positions = <<>>
    /\ clock = 0

Init == Start /\ budget = MaxCalls

Next ==
    \/ \E symbol \in Symbols, side \in Sides, intent \in Intents,
          candles \in Candles, now \in Times :
          PlaceOrder(symbol, side, intent[1], intent[2], candles, now)
    \/ \E symbol \in Symbols, candles \in Candles : Close(symbol, candles)
    \/ MonitorVirtualOrders

Spec == Init /\ [][Next]_vars

-----------------------------------------------------------------------------
(* What place_order returns *)

\* the outcomes that are exceptions raised to the caller
Raises == {"KeyError", "ZeroDivisionError"}

\* the keys of the dict place_order returns on each of its return statements
ResultKeys(result) ==
    CASE result = "opened" ->
            {"order_id", "symbol", "side", "order_type", "qty", "price", "status",
             "margin", "leverage", "create_time"}
      [] result = "modified" -> {"message", "order"}
      [] result \in {"insufficient", "insufficient_modification"} -> {"error"}
      [] result = "amended" -> {"orderId"}
      [] result = "no_order_id" -> {"success", "message", "response"}
      [] result = "no_orders" -> {"success", "message", "order_id", "response"}
      [] result = "confirmed" -> {"success", "message", "order_id", "status", "response"}
      [] result = "not_active" -> {"success", "message", "order_id", "response"}
      [] result = "status_exception" -> {"success", "message", "error", "response"}
      [] OTHER -> {}

\* the value of the success field, where there is one
Success(result) == result = "confirmed"

-----------------------------------------------------------------------------
(* TradingEngine.run_once: scanning and ranking *)

\* the symbols get_usdt_symbols returns, in the order they are scanned
ScanSymbols == <<"BTCUSDT", "ETHUSDT">>

\* analyze(symbol) found nothing (None); `enhanced` not yet assigned
NoSignal == [some |-> FALSE]

\* a signal of analyze(symbol): entry is its lowercase "entry" field (0: not
\* there), margin_usdt and leverage are 0 when absent or None, SL and TP say
\* whether the field is there and truthy; prices and margins in cents
Signal(symbol, side, qty, entry_price, score, sl, tp, entry) ==
    [some |-> TRUE, Symbol |-> symbol, Side |-> side, Qty |-> qty,
     Entry |-> entry_price, score |-> score, SL |-> sl, TP |-> tp,
     entry |-> entry, leverage |-> 0, margin_usdt |-> 0]

\* the signals analyze may return for a symbol: a complete one with a high
\* and with a low score, one without SL, one that carries a lowercase entry
SignalsOf(symbol) ==
    {Signal(symbol, "Buy", 1, 10000, 80, TRUE, TRUE, 0),
     Signal(symbol, "Buy", 1, 10000, 60, TRUE, TRUE, 0),
     Signal(symbol, "Sell", 1, 10000, 70, FALSE, TRUE, 0),
     Signal(symbol, "Buy", 1, 10000, 90, TRUE, TRUE, 10000)}

\* what analyze may return for each scanned symbol
Scans ==
    {raws \in [DOMAIN ScanSymbols -> {NoSignal} \cup SignalsOf("BTCUSDT") \cup SignalsOf("ETHUSDT")] :
        \A i \in DOMAIN ScanSymbols :
           raws[i] = NoSignal \/ raws[i] \in SignalsOf(ScanSymbols[i])}

\* the values of the TOP_N_SIGNALS setting
TopNs == {1, 2}

DefaultLeverage == 20
DefaultMargin == 500
SignalCapital == 10000

\* MLFilter.enhance_signal: the score is the one the scoring gave the signal;
\* margin_usdt is capital / leverage when the lowercase entry is positive
\* and None otherwise
enhance_signal(signal) ==
    LET leverage == IF signal.leverage = 0 THEN DefaultLeverage ELSE signal.leverage
    IN  IF signal.entry > 0 /\ leverage > 0
        THEN [signal EXCEPT !.margin_usdt = RoundDiv(SignalCapital, leverage)]
        ELSE [signal EXCEPT !.margin_usdt = 0]

\* the state of the scan loop: the variable `enhanced`, the list `signals`
\* and whether the loop raised (UnboundLocalError on `enhanced`)
ScanState(enhanced, signals, raised) ==
    [enhanced |-> enhanced, signals |-> signals, raised |-> raised]

\* the part of the loop body after `if raw:`; it runs for every symbol, on
\* whatever `enhanced` holds; the signal is appended inside the branch that
\* defaults margin_usdt
enrich(acc, enhanced) ==
    IF ~enhanced.some THEN ScanState(enhanced, acc.signals, TRUE)
    ELSE LET e1 == IF enhanced.leverage = 0
                   THEN [enhanced EXCEPT !.leverage = DefaultLeverage] ELSE enhanced
         IN  IF e1.margin_usdt = 0
             THEN LET e2 == [e1 EXCEPT !.margin_usdt = DefaultMargin]
                  IN  ScanState(e2, Append(acc.signals, e2), FALSE)
             ELSE ScanState(e1, acc.signals, FALSE)

\* one pass of the scan loop, for a symbol for which analyze returned raw
scan_symbol(acc, raw) ==
    IF acc.raised THEN acc
    ELSE enrich(acc, IF raw.some THEN enhance_signal(raw) ELSE acc.enhanced)

\* the scan loop over the first n symbols
RECURSIVE scan(_, _)
scan(raws, n) ==
    IF n = 0 THEN ScanState(NoSignal, <<>>, FALSE)
    ELSE scan_symbol(scan(raws, n - 1), raws[n])

\* list.sort(key=score, reverse=True), which is stable: signal goes before
\* the first element of the sorted list whose score is lower
RECURSIVE insert_by_score(_, _)
insert_by_score(sorted, signal) ==
    IF sorted = <<>> THEN <<signal>>
    ELSE IF Head(sorted).score < signal.score THEN <<signal>> \o sorted
    ELSE <<Head(sorted)>> \o insert_by_score(Tail(sorted), signal)

RECURSIVE sort_by_score(_, _)
sort_by_score(signals, n) ==
    IF n = 0 THEN <<>>
    ELSE insert_by_score(sort_by_score(signals, n - 1), signals[n])

Min(a, b) == IF a <= b THEN a ELSE b

\* signals.sort(...); top_signals = signals[:top_n_signals]
top_signals(signals, top_n) ==
    SubSeq(sort_by_score(signals, Len(signals)), 1, Min(top_n, Len(signals)))

-----------------------------------------------------------------------------
(* Both configurations *)

\* the number of calls of a run of a process of either configuration
MaxRealCalls == 2

\* BybitClient.__init__ with USE_REAL_TRADING set or not: with it set the
\* client is the exchange handle, or None when the keys are missing or the
\* handle could not be made
InitModes ==
    /\ use_real \in BOOLEAN
    /\ LoopIdle /\ CapitalIdle
    /\ exchange = <<>>
    /\ trades = <<>>
    /\ closures = <<>>
    /\ client \in {"None", "HTTP"}
    /\ file \in InitialFiles
    /\ wallet = file
    /\ orders = <<>>
    /\ positions = <<>>
    /\ clock = 0
    /\ budget = MaxRealCalls

NextModes ==
    \/ Next
    \/ \E symbol \in Symbols, side \in Sides, intent \in Intents,
          x \in Behaviours(client) :
          PlaceOrderReal(symbol, side, intent[1], intent[2], x)

\* a process of either configuration
SpecModes == InitModes /\ [][NextModes]_vars

-----------------------------------------------------------------------------
(* TradingEngine.run_once: executing and reporting *)

\* the state of the client and of the stores it writes
ClientState ==
    [wallet |-> wallet, file |-> file, orders |-> orders, positions |-> positions,
     exchange |-> exchange, trades |-> trades, closures |-> closures,
     clock |-> clock]

\* the exchange not being asked anything during a call
Unasked == Answer(FALSE, EmptyResult, FALSE)

\* what the environment does during a cycle: the candles the market data
\* answers, whether a millisecond passes between two order ids, and what the
\* exchange does on a call of the real path (run_once passes no
\* order_link_id; the exchange is asked and answers with a dict)
CycleEnvs ==
    IF RealPath
    THEN [candles : {<<>>}, late : {TRUE},
          x : {b \in Behaviours(client) :
                 /\ ~b.amend /\ b.qty_step = 1
                 /\ b.place.called /\ b.place.result.dict
                 /\ b.poll.called /\ b.poll.result.dict}]
    ELSE [candles : Candles, late : BOOLEAN,
          x : {b \in Behaviours(client) :
                 ~b.amend /\ b.qty_step = 1 /\ b.place = Unasked /\ b.poll = Unasked}]

\* int(time.time() * 1000) as a call in a cycle reads it
now_of(st, env) ==
    IF st.clock = 0 THEN 1 ELSE IF env.late THEN st.clock + 1 ELSE st.clock

\* the client state after a call on the virtual path gave r
after_virtual(st, r, symbol, now) ==
    [st EXCEPT !.wallet = r.wallet,
               !.file = IF r.saved THEN r.wallet ELSE @,
               !.orders = r.orders,
               !.positions = r.positions,
               !.clock = IF r.result = "opened" THEN now ELSE @,
               !.trades = IF r.result = "opened"
                          THEN Append(@, TradeRecord(now, symbol, TRUE)) ELSE @]

\* a call of place_order made by run_once: the outcome (result), the order
\* id of the order returned (0: none), whether it took the real path, and
\* the client state it leaves
Called(result, order_id, real, st) ==
    [result |-> result, order_id |-> order_id, real |-> real, st |-> st]

\* self.client.place_order(symbol=signal["Symbol"], side=signal["Side"],
\* qty=signal["Qty"], price=signal["Entry"]) in client state st
call_virtual(st, signal, env) ==
    LET now == now_of(st, env)
        r == place_order(st.wallet, st.orders, st.positions, signal.Symbol,
                         signal.Side, signal.Qty, signal.Entry,
                         get_chart_data(client, env.candles), now)
    IN  Called(r.result, IF r.result = "opened" THEN now ELSE 0, FALSE,
               [after_virtual(st, r, signal.Symbol, now) EXCEPT
                   !.closures = @ \o close_trade(r.positions, r.closed,
                                                 get_chart_data(client, env.candles))])

call_real(st, signal, env) ==
    LET r == real_place_order(signal.Symbol, signal.Side, signal.Qty, signal.Entry, env.x)
    IN  Called(r.result, IF r.result = "confirmed" THEN ExchangeOrderId ELSE 0, TRUE,
               [st EXCEPT !.exchange = @ \o r.sent])

call_place_order(st, signal, env) ==
    IF RealPath THEN call_real(st, signal, env) ELSE call_virtual(st, signal, env)

\* `if not order or "symbol" not in order`: the order is skipped as failed
skipped(result) == result \in Raises \/ "symbol" \notin ResultKeys(result)

\* missing_fields is not empty: the price of the order (the Entry of the
\* signal) is falsy, or SL, TP, leverage or margin_usdt of the signal is
missing_fields(signal) ==
    signal.Qty = 0 \/ signal.Entry = 0 \/ ~signal.SL \/ ~signal.TP
    \/ signal.leverage = 0 \/ signal.margin_usdt = 0

\* the outcome of the execution loop: the signals passed to place_order, the
\* calls that placed an order (with the path they took), the trade records
\* run_once added, whether the loop raised ValueError, the client state
Executed(calls, placed, added, raised, st) ==
    [calls |-> calls, placed |-> placed, added |-> added, raised |-> raised, st |-> st]

\* an outcome with the call c of signal put in front of the rest
Before(signal, c, added, rest) ==
    Executed(<<signal>> \o rest.calls,
             (IF c.result \in {"opened", "confirmed"} THEN <<c>> ELSE <<>>) \o rest.placed,
             added \o rest.added, rest.raised, rest.st)

\* the execution loop over the ranked signals top in client state st
RECURSIVE execute(_, _, _)
execute(st, top, env) ==
    IF top = <<>> THEN Executed(<<>>, <<>>, <<>>, FALSE, st)
    ELSE LET signal == Head(top)
             c == call_place_order(st, signal, env)
             trade == TradeRecord(c.order_id, signal.Symbol, ~use_real)
         IN  IF skipped(c.result)
             THEN Before(signal, c, <<>>, execute(c.st, Tail(top), env))
             ELSE IF missing_fields(signal)
             THEN Before(signal, c, <<>>, Executed(<<>>, <<>>, <<>>, TRUE, c.st))
             ELSE Before(signal, c, <<trade>>,
                         execute([c.st EXCEPT !.trades = Append(@, trade)],
                                 Tail(top), env))

\* the end of run_once: the reports, then monitor_virtual_orders in a process
\* not configured for real trading
report(st) ==
    IF use_real THEN st
    ELSE [st EXCEPT !.orders = filled_orders(@), !.positions = active_positions(@)]

\* the outcome of a cycle: the exception it raised ("none": it returned), its
\* signal list, the ranked signals, the execution, whether the reports were
\* made, the client state
Cycle(raised, signals, top, e, reported, st) ==
    [raised |-> raised, signals |-> signals, top |-> top, calls |-> e.calls,
     placed |-> e.placed, added |-> e.added, reported |-> reported, st |-> st]

\* the cycle from the ranking on
run_ranked(signals, top, e) ==
    IF e.raised
    THEN Cycle("ValueError", signals, top, e, FALSE, e.st)
    ELSE Cycle("none", signals, top, e, TRUE, report(e.st))

\* run_once when analyze returns raws, TOP_N_SIGNALS is top_n and the
\* environment does env
run_scanned(sc, top_n, env) ==
    IF sc.raised
    THEN Cycle("UnboundLocalError", sc.signals, <<>>,
               Executed(<<>>, <<>>, <<>>, FALSE, ClientState), FALSE, ClientState)
    ELSE IF sc.signals = <<>>
    THEN Cycle("none", <<>>, <<>>,
               Executed(<<>>, <<>>, <<>>, FALSE, ClientState), FALSE, ClientState)
    ELSE run_ranked(sc.signals, top_signals(sc.signals, top_n),
                    execute(ClientState, top_signals(sc.signals, top_n), env))

run_once(raws, top_n, env) == run_scanned(scan(raws, Len(ScanSymbols)), top_n, env)

RunOnce(raws, top_n, env) ==
    \E r \in {run_once(raws, top_n, env)} :
        /\ budget > 0
        /\ budget' = budget - 1
        /\ wallet' = r.st.wallet
        /\ file' = r.st.file
        /\ orders' = r.st.orders
        /\ positions' = r.st.positions
        /\ exchange' = r.st.exchange
        /\ trades' = r.st.trades
        /\ closures' = r.st.closures
        /\ clock' = r.st.clock
        /\ UNCHANGED <<capital_vars, use_real, client>>

\* the number of cycles of a run of the engine
MaxCycles == 2

\* TradingEngine.__init__: a client of either configuration
InitEngine ==
    /\ use_real \in BOOLEAN
    /\ LoopIdle /\ CapitalIdle
    /\ exchange = <<>>
    /\ trades = <<>>
    /\ closures = <<>>
    /\ client \in {"None", "HTTP"}
    /\ file \in InitialFiles
    /\ wallet = file
    /\ orders = <<>>
    /\ positions = <<>>
    /\ clock = 0
    /\ budget = MaxCycles

\* run_loop: one cycle after the other
NextEngine ==
    \E raws \in Scans, top_n \in TopNs, env \in CycleEnvs :
        RunOnce(raws, top_n, env) /\ UNCHANGED loop_vars

SpecEngine == InitEngine /\ [][NextEngine]_vars

-----------------------------------------------------------------------------
(* TradingEngine.run_loop *)

\* the seconds of the countdown between two cycles (3600 in the code)
scan_interval == 2

\* `for remaining in range(scan_interval, 0, -1)` has run out
countdown_skipped(left) == TRUE

countdown_elapsed(left) == left = 0

\* `self.run_once()` is called: at the entry of the loop, and then when the
\* countdown that follows the previous call has run out
BeginCycle ==
    /\ phase = "Countdown"
    /\ countdown_elapsed(remaining)
    /\ budget > 0
    /\ phase' = "Running"
    /\ UNCHANGED <<remaining, outcome, capital_vars, use_real, client, wallet, file,
                   orders, positions, exchange, trades, closures, clock, budget>>

\* the exceptions run_once and place_order raise: all of them derive from
\* Exception
ExceptionClasses == {"UnboundLocalError", "ValueError", "KeyError", "ZeroDivisionError"}

\* a loop whose try has no except clause
caught_nothing(raised) == FALSE

\* `except Exception as e`: the exception of run_once is caught and printed
caught(raised) == raised \in ExceptionClasses

\* run_once returns or raises; when it returned or the exception was caught
\* the countdown starts, otherwise the exception leaves run_loop
EndCycle(raws, top_n, env) ==
    /\ phase = "Running"
    /\ RunOnce(raws, top_n, env)
    /\ remaining' = scan_interval
    /\ \E raised \in {run_once(raws, top_n, env).raised} :
          /\ phase' = IF raised = "none" \/ caught(raised)
                      THEN "Countdown" ELSE "Stopped"
          /\ outcome' = IF raised = "none" THEN "returned" ELSE "failed"

\* time.sleep(1) of the countdown
Tick ==
    /\ phase = "Countdown"
    /\ remaining > 0
    /\ remaining' = remaining - 1
    /\ UNCHANGED <<phase, outcome, capital_vars, use_real, client, wallet, file,
                   orders, positions, exchange, trades, closures, clock, budget>>

NextLoop ==
    \/ BeginCycle
    \/ \E raws \in Scans, top_n \in TopNs, env \in CycleEnvs : EndCycle(raws, top_n, env)
    \/ Tick

\* the engine running its loop
SpecLoop == InitEngine /\ [][NextLoop]_vars

\* the loop in a thread that keeps being scheduled: the call of run_once is
\* made, it comes to an end (by returning or by raising), and every
\* time.sleep(1) returns
SpecLoopLive ==
    SpecLoop /\ WF_vars(BeginCycle) /\ WF_vars(Tick) /\ []<>(phase # "Running")

-----------------------------------------------------------------------------
(* capital.json: the document, its readers and its writers *)

\* the number of capital operations of a run
MaxWrites == 3

\* the starting balance of the virtual record, in cents
StartingBalance == 10000

\* initial_data of load_capital
initial_data ==
    Document(CapitalRecord({"capital", "start_balance", "currency"}, 0, 0, 0, 0, "USD"),
             CapitalRecord({"capital", "start_balance", "currency"},
                           StartingBalance, 0, 0, StartingBalance, "USD"),
             FALSE)

\* the wallet _load_virtual_wallet falls back to:
\* {"USDT": {"equity": 100.0, "available_balance": 100.0}}
DefaultDocument == Document(NoRecord, NoRecord, TRUE)

\* a document whose records have every key
FullDocument ==
    Document(CapitalRecord(CapitalKeys, 0, 0, 0, 0, "USDT"),
             CapitalRecord(CapitalKeys, StartingBalance, StartingBalance, 0,
                           StartingBalance, "USD"),
             FALSE)

\* what capital.json may hold when the process starts
InitialDisks == {Missing, Whole(initial_data), Whole(FullDocument)}

\* a file json.load cannot read
Unreadable(f) == f.state \in {"missing", "truncated"}

Modes == {"real", "virtual"}

\* the instances of BybitClient: the one made when bybit_client is imported
\* (`bybit_client = BybitClient()`) and the one TradingEngine.__init__ makes
Instances == {"bybit_client", "engine.client"}

\* ---- TradingEngine ----

\* all_capital[mode] = {...} of save_capital: capital, start_balance and
\* currency of data, with their defaults
saved_record(data) ==
    CapitalRecord({"capital", "start_balance", "currency"},
                  Field(data, "capital", 0), 0, 0,
                  Field(data, "start_balance", 0), Field(data, "currency", "USD"))

\* the document save_capital(mode, data) writes over the document d
save_capital(d, mode, data) == [d EXCEPT ![mode] = saved_record(data)]

\* what load_capital(mode) returns from the document d ("all": d itself)
load_capital(d, mode) == IF mode = "all" THEN d ELSE d[mode]

\* ---- BybitClient ----

\* the attributes __init__ gives an instance
InstanceAttributes ==
    {"use_real", "use_testnet", "logger", "_virtual_orders", "_virtual_positions",
     "session", "client", "base_url", "virtual_wallet", "_HTTP"}

\* the balances the exchange may answer get_wallet_balance with
\* (walletBalance, availableToWithdraw), in cents
Balances == {<<5000, 3000>>, <<7000, 7000>>}

\* capital_data of update_usdt_capital, start_balance kept when the real
\* record has one
capital_data(real, balance) ==
    CapitalRecord(real.has \cup CapitalKeys, balance[1], balance[2],
                  balance[1] - balance[2],
                  Field(real, "start_balance", balance[1]), "USDT")

\* update_usdt_capital on an instance whose attributes are attrs, over the
\* capital document d: building capital_data reads self.capital; without
\* that attribute the AttributeError is caught and logged and nothing is
\* changed or saved
update_usdt_capital(attrs, d, balance) ==
    IF "capital" \in attrs
    THEN [d EXCEPT !.real = capital_data(d.real, balance)]
    ELSE d

\* ---- the steps ----

\* the wallet of an instance that has not been constructed, and of one that
\* holds the document d
Unloaded == [loaded |-> FALSE, doc |-> EmptyDocument]
Loaded(d) == [loaded |-> TRUE, doc |-> d]

\* the write of document d by writer w begins: open("capital.json", "w")
BeginWrite(w, d) ==
    /\ disk' = Truncated
    /\ pending' = [by |-> w, doc |-> d]

\* json.dump and the close of the file: the document is whole on disk
FinishWrite ==
    /\ pending # NoWrite
    /\ disk' = Whole(pending.doc)
    /\ pending' = NoWrite
    /\ UNCHANGED <<memory, seen, ledger, budget>>

\* the document every intended write so far adds up to
Base == ledger.doc

\* BybitClient.__init__ of instance w: _load_virtual_wallet reads the file;
\* when it is missing or does not decode, the default wallet is taken and
\* saved
Construct(w) ==
    /\ ~memory[w].loaded
    /\ \/ w = "bybit_client"
       \/ memory["bybit_client"].loaded
    /\ IF Unreadable(disk)
       THEN /\ pending = NoWrite
            /\ memory' = [memory EXCEPT ![w] = Loaded(DefaultDocument)]
            /\ BeginWrite(w, DefaultDocument)
       ELSE /\ memory' = [memory EXCEPT ![w] = Loaded(disk.doc)]
            /\ UNCHANGED <<disk, pending>>
    /\ UNCHANGED <<seen, ledger, budget>>

\* the margins of the orders of a run, in cents
Margins == {500}

\* place_order of instance w on the virtual path opens an order of the given
\* margin: the "virtual" record of its wallet is changed and the whole
\* wallet is saved
Reserve(w, margin) ==
    /\ budget > 0
    /\ memory[w].loaded
    /\ pending = NoWrite
    /\ ~insufficient(margin, Get(memory[w].doc.virtual, "available"))
    /\ budget' = budget - 1
    /\ memory' = [memory EXCEPT ![w].doc.virtual = open_wallet(@, margin, 0)]
    /\ BeginWrite(w, memory'[w].doc)
    /\ ledger' = Whole([Base EXCEPT !.virtual = open_wallet(@, margin, 0)])
    /\ UNCHANGED seen

\* the records the engine is asked to save
SavedRecords ==
    {CapitalRecord({"capital", "start_balance", "currency"}, 5000, 0, 0, 5000, "USD"),
     CapitalRecord(CapitalKeys, 9000, 6000, 3000, 10000, "USD")}

\* TradingEngine.save_capital(mode, data): the file is read, the record of
\* the mode replaced, the file written; a file that does not decode raises
SaveCapital(mode, data) ==
    /\ budget > 0
    /\ memory["engine.client"].loaded
    /\ budget' = budget - 1
    /\ IF disk = Truncated
       THEN UNCHANGED <<disk, pending, ledger>>
       ELSE /\ pending = NoWrite
            /\ BeginWrite("engine", save_capital(disk.doc, mode, data))
            /\ ledger' = Whole(save_capital(Base, mode, data))
    /\ UNCHANGED <<memory, seen>>

\* what load_capital finds and leaves when the file holds d
loaded(f, mode) ==
    IF f = Truncated THEN [returned |-> Seen("JSONDecodeError", mode, EmptyDocument), disk |-> f]
    ELSE IF f = Missing
    THEN [returned |-> Seen("loaded", mode, initial_data), disk |-> Whole(initial_data)]
    ELSE [returned |-> Seen("loaded", mode, f.doc), disk |-> f]

\* TradingEngine.load_capital(mode), as the dashboard calls it
LoadCapital(mode) ==
    /\ budget > 0
    /\ memory["engine.client"].loaded
    /\ budget' = budget - 1
    /\ seen' = loaded(disk, mode).returned
    /\ disk' = loaded(disk, mode).disk
    /\ ledger' = IF disk = Missing /\ ledger = Missing THEN Whole(initial_data) ELSE ledger
    /\ UNCHANGED <<memory, pending>>

\* the rest of the process is left alone by the capital steps
CapitalFrame ==
    UNCHANGED <<loop_vars, use_real, client, wallet, file, orders, positions,
                exchange, trades, closures, clock>>

InitCapital ==
    /\ use_real = FALSE
    /\ LoopIdle
    /\ exchange = <<>>
    /\ trades = <<>>
    /\ closures = <<>>
    /\ client = "None"
    /\ file = DefaultWallet
    /\ wallet = file
    /\ orders = <<>>
    /\ positions = <<>>
    /\ clock = 0
    /\ budget = MaxWrites
    /\ disk \in InitialDisks
    /\ ledger = disk
    /\ memory = [w \in Instances |-> Unloaded]
    /\ pending = NoWrite
    /\ seen = NothingSeen

NextCapital ==
    \/ \E w \in Instances : Construct(w) /\ CapitalFrame
    \/ \E w \in Instances, margin \in Margins : Reserve(w, margin) /\ CapitalFrame
    \/ \E mode \in Modes, data \in SavedRecords : SaveCapital(mode, data) /\ CapitalFrame
    \/ \E mode \in Modes \cup {"all"} : LoadCapital(mode) /\ CapitalFrame
    \/ FinishWrite /\ CapitalFrame

\* the worker, the dashboard and the client instances over one capital.json
SpecCapital == InitCapital /\ [][NextCapital]_vars

-----------------------------------------------------------------------------
(* Process stops and restarts *)

\* the "virtual" record a new process loads when the process before it
\* stopped in _save_virtual_wallet, between open("capital.json", "w"), which
\* truncates the file, and the end of json.dump: the file does not decode
\* and _load_virtual_wallet falls back to the default wallet
TruncatedFile == DefaultWallet

\* BybitClient.__init__ of the next process over the persisted record f: the
\* order and position lists start empty, the wallet is what capital.json holds
Restarted(f) ==
    /\ budget > 0
    /\ budget' = budget - 1
    /\ wallet' = f
    /\ file' = f
    /\ orders' = <<>>
    /\ positions' = <<>>
    /\ UNCHANGED <<closures, loop_vars, capital_vars, use_real, client, exchange, trades, clock>>

\* the process stops between two calls and is started again
Restart == Restarted(file)

\* the places of place_order where the process may stop: in the
\* _save_virtual_wallet of the close it makes ("closing"), after that close
\* and before its own save ("closed"), in its own _save_virtual_wallet
\* ("saving"), after its save and before the order and the position are
\* appended or updated ("saved")
PlaceOrderStops == {"closing", "closed", "saving", "saved"}

\* the process stops at place `stop` of place_order and is started again
StopInPlaceOrder(symbol, side, qty, price, candles, now, stop) ==
    \E r \in {Placed(symbol, side, qty, price, candles, now)},
       c \in {Closed(symbol, candles)} :
        /\ r.saved
        /\ stop \in {"closing", "closed"} => (r.result = "opened" /\ c.closed # 0)
        /\ Restarted(CASE stop = "closed" -> c.wallet
                        [] stop = "saved" -> r.wallet
                        [] OTHER -> TruncatedFile)

\* the places of close_virtual_position where the process may stop: after the
\* position is marked and before the save ("marked"), in the save ("saving"),
\* after it ("saved")
CloseStops == {"marked", "saving", "saved"}

\* the process stops at place `stop` of close_virtual_position and is
\* started again
StopInClose(symbol, candles, stop) ==
    \E c \in {Closed(symbol, candles)} :
        /\ c.closed # 0
        /\ Restarted(CASE stop = "marked" -> file
                        [] stop = "saved" -> c.wallet
                        [] OTHER -> TruncatedFile)

NextCrash ==
    \/ Next
    \/ Restart
    \/ \E symbol \in Symbols, side \in Sides, intent \in Intents,
          candles \in Candles, now \in Times, stop \in PlaceOrderStops :
          StopInPlaceOrder(symbol, side, intent[1], intent[2], candles, now, stop)
    \/ \E symbol \in Symbols, candles \in Candles, stop \in CloseStops :
          StopInClose(symbol, candles, stop)

\* the process with stops and restarts
SpecCrash == Init /\ [][NextCrash]_vars

-----------------------------------------------------------------------------
(* The virtual ledger: capital, balances, positions *)

OpenOn(symbol) == {i \in DOMAIN positions :
                     positions[i].symbol = symbol /\ positions[i].status = "open"}

ClosedOn(symbol) == {i \in DOMAIN positions :
                       positions[i].symbol = symbol /\ positions[i].status = "closed"}

\* C1: after every sequence of place_order, close_virtual_position and
\* monitor_virtual_orders calls the capital record satisfies
\* available + used = capital.
C1_AvailablePlusUsedIsCapital ==
    wallet.has = WalletKeys => wallet.available + wallet.used = wallet.capital

\* C2: in every reachable state of the virtual ledger available >= 0 and
\* used >= 0.
C2_BalancesNonNegative ==
    Get(wallet, "available") >= 0 /\ Get(wallet, "used") >= 0

\* C3: for every symbol there is at most one position with status open.
C3_AtMostOneOpenPosition ==
    \A symbol \in Symbols : Cardinality(OpenOn(symbol)) <= 1

\* a symbol on which a position was opened while another was open: the old
\* one is closed, the new one open
C3_Witness ==
    \E symbol \in Symbols : ClosedOn(symbol) # {} /\ OpenOn(symbol) # {}
                            /\ \E i \in ClosedOn(symbol), j \in OpenOn(symbol) : i < j

-----------------------------------------------------------------------------
(* The effect of one call, for every call that can be made in a state *)

Available == Get(wallet, "available")
Used == Get(wallet, "used")

\* C4: opening a position with margin M on a symbol that has no open
\* position reduces available by exactly M and increases used by exactly M;
\* closing a position of margin M with PnL pnl increases available by exactly
\* M + pnl and reduces used by exactly M.
C4_MarginConservation ==
    /\ \A symbol \in Symbols, side \in Sides, intent \in Intents,
          candles \in Candles, now \in Times :
          LET r == Placed(symbol, side, intent[1], intent[2], candles, now)
          IN  (r.result = "opened" /\ OpenOn(symbol) = {}) =>
                 /\ Get(r.wallet, "available") = Available - r.margin
                 /\ Get(r.wallet, "used") = Used + r.margin
    /\ \A symbol \in Symbols, candles \in Candles :
          LET c == Closed(symbol, candles)
          IN  c.closed # 0 =>
                 /\ Get(c.wallet, "available")
                       = Available + positions[c.closed].margin + c.pnl
                 /\ Get(c.wallet, "used") = Used - positions[c.closed].margin

\* the margin a call needs: the increase over the margin of the order it
\* modifies, the whole margin when it opens a position
RequiredMargin(symbol, side, margin) ==
    LET e == existing_order(orders, symbol, side)
    IN  IF e # 0 /\ orders[e].has_margin THEN margin - orders[e].margin ELSE margin

\* C5: whenever the margin required by a call (or the margin increase of a
\* modification) exceeds available, the call returns an insufficient-capital
\* result and the ledger, the order list and the position list are unchanged.
C5_InsufficientCapitalRejected ==
    \A symbol \in Symbols, side \in Sides, intent \in Intents,
       candles \in Candles, now \in Times :
       LET r == Placed(symbol, side, intent[1], intent[2], candles, now)
       IN  RequiredMargin(symbol, side, r.margin) > Available =>
              /\ r.result \in {"insufficient", "insufficient_modification"}
              /\ r.wallet = wallet /\ ~r.saved
              /\ r.orders = orders
              /\ r.positions = positions

\* the position a parent order owns
PositionOf(o) == {i \in DOMAIN positions : positions[i].order_id = o.order_id}

ParentOrders == {i \in DOMAIN orders : ~orders[i].reduce_only}

\* the margins reserved: those of the open positions
RECURSIVE SumMargins(_, _)
SumMargins(ps, idx) ==
    IF idx = {} THEN 0
    ELSE LET i == CHOOSE j \in idx : TRUE
         IN  ps[i].margin + SumMargins(ps, idx \ {i})

OpenPositions == {i \in DOMAIN positions : positions[i].status = "open"}

\* C6: every non-protective order with status open has its margin reserved
\* in the ledger (its position is open and used covers the margins of the open
\* orders), and no margin is reserved without a corresponding order.
C6_OpenOrdersHaveMarginReserved ==
    /\ \A i \in ParentOrders :
          orders[i].status = "open" =>
             \E j \in PositionOf(orders[i]) : positions[j].status = "open"
    /\ Used = SumMargins(positions, OpenPositions)

\* the PnL of closing position pos at last price last_price, as C7 states it
ClaimedPnl(pos, last_price) ==
    IF pos.side = "Buy" THEN (last_price - pos.price) * pos.qty
    ELSE (pos.price - last_price) * pos.qty

\* C7: when a position is closed with last price L available, its
\* realized_pnl is (L - entry_price) * qty for side Buy and
\* (entry_price - L) * qty for side Sell, by close_virtual_position and by the
\* close place_order makes before it opens a position.
C7_RealizedPnl ==
    /\ \A symbol \in Symbols, candles \in Candles :
          LET c == Closed(symbol, candles)
              cs == get_chart_data(client, candles)
          IN  (c.closed # 0 /\ cs # <<>>) =>
                 /\ c.positions[c.closed].has_pnl
                 /\ c.positions[c.closed].realized_pnl
                       = ClaimedPnl(positions[c.closed], cs[Len(cs)])
    /\ \A symbol \in Symbols, side \in Sides, intent \in Intents,
          candles \in Candles, now \in Times :
          LET r == Placed(symbol, side, intent[1], intent[2], candles, now)
              cs == get_chart_data(client, candles)
          IN  (r.closed # 0 /\ cs # <<>>) =>
                 r.positions[r.closed].realized_pnl
                    = ClaimedPnl(positions[r.closed], cs[Len(cs)])

\* a position closed at 110.00 with a PnL that is not zero
C7_Witness ==
    \E i \in DOMAIN positions :
       /\ positions[i].status = "closed" /\ positions[i].has_pnl
       /\ positions[i].realized_pnl # 0
       /\ positions[i].realized_pnl = ClaimedPnl(positions[i], 11000)

\* C8: close on a symbol with no open position returns not found and changes
\* neither the ledger nor any position; closing twice has the effect of
\* closing once.
C8_CloseIdempotent ==
    \A symbol \in Symbols, candles \in Candles :
       LET c == Closed(symbol, candles)
       IN  /\ OpenOn(symbol) = {} =>
                (c.closed = 0 /\ c.wallet = wallet /\ ~c.saved /\ c.positions = positions)
           /\ \A again \in Candles :
                 LET d == close_virtual_position(c.positions, c.wallet, symbol,
                                                 get_chart_data(client, again))
                 IN  d.closed = 0 /\ d.wallet = c.wallet /\ d.positions = c.positions

\* a symbol whose position was closed and has none open: a second close
C8_Witness ==
    \E symbol \in Symbols : ClosedOn(symbol) # {} /\ OpenOn(symbol) = {}

\* C9: when a call opens a new position on a symbol that has an open position
\* (no open order matches symbol and side), the old position's margin and PnL
\* are credited before the validation: the order is accepted whenever the new
\* margin is at most available + old margin + old PnL.
C9_CloseBeforeValidation ==
    \A symbol \in Symbols, side \in Sides, intent \in Intents,
       candles \in Candles, now \in Times :
       LET r == Placed(symbol, side, intent[1], intent[2], candles, now)
           i == open_position(positions, symbol)
       IN  (existing_order(orders, symbol, side) = 0 /\ i # 0
            /\ r.margin <= Available + positions[i].margin
                  + calculate_virtual_pnl(positions[i], get_chart_data(client, candles)))
           => r.result = "opened"

-----------------------------------------------------------------------------
(* The results of place_order, on both paths *)

\* the calls of place_order that can be made on the real path
RealCalls == Symbols \X Sides \X Intents

\* the protective (reduce-only) requests among the requests sent
Protective(sent) == {i \in DOMAIN sent : sent[i].reduce_only}

\* C11: every value place_order returns, on the virtual and on the real
\* path, has a success field, and has an order_id when success is true.
C11_UniformResult ==
    /\ ~RealPath =>
          \A symbol \in Symbols, side \in Sides, intent \in Intents,
             candles \in Candles, now \in Times :
             LET r == Placed(symbol, side, intent[1], intent[2], candles, now)
             IN  r.result \notin Raises => "success" \in ResultKeys(r.result)
    /\ RealPath =>
          \A call \in RealCalls, x \in Behaviours(client) :
             LET r == PlacedReal(call[1], call[2], call[3][1], call[3][2], x)
             IN  r.result \notin Raises =>
                    /\ "success" \in ResultKeys(r.result)
                    /\ Success(r.result) => "order_id" \in ResultKeys(r.result)

\* the exchange gave an order id and the poll a status New, PartiallyFilled
\* or Filled
StatusConfirmed(x) ==
    /\ extract_response(x.place).orderId # 0
    /\ x.poll.result.dict
    /\ x.poll.result.list # <<>>
    /\ x.poll.result.list[1] \in {"New", "PartiallyFilled", "Filled"}

\* C13: on the real path (a new order, not an amendment) protective orders
\* are submitted only when the status poll returned New, PartiallyFilled or
\* Filled; when the exchange returned no order id or another status the call
\* returns success = false, raises nothing and submits no protective order.
C13_ProtectiveOnlyAfterConfirmation ==
    RealPath =>
       \A call \in RealCalls, x \in Behaviours(client) :
          LET r == PlacedReal(call[1], call[2], call[3][1], call[3][2], x)
          IN  (~x.amend /\ x.qty_step # 0) =>
                 /\ Protective(r.sent) # {} => StatusConfirmed(x)
                 /\ ~StatusConfirmed(x) =>
                       /\ r.result \notin Raises
                       /\ "success" \in ResultKeys(r.result)
                       /\ ~Success(r.result)
                       /\ Protective(r.sent) = {}

\* a real process that submitted an order and may be told by the exchange
\* that the order has status Rejected
C13_Witness ==
    /\ RealPath
    /\ exchange # <<>>
    /\ \E call \in RealCalls, x \in Behaviours(client) :
          /\ ~x.amend /\ x.qty_step # 0
          /\ extract_response(x.place).orderId # 0
          /\ x.poll.result.list = <<"Rejected">>
          /\ PlacedReal(call[1], call[2], call[3][1], call[3][2], x).result = "not_active"

\* C14: on the real path, once the parent order's status is confirmed, the
\* call submits two reduce-only orders for the same symbol and quantity
\* before it returns success.
C14_ProtectiveOrdersSubmitted ==
    RealPath =>
       \A call \in RealCalls, x \in Behaviours(client) :
          LET r == PlacedReal(call[1], call[2], call[3][1], call[3][2], x)
          IN  r.result = "confirmed" =>
                 /\ Cardinality(Protective(r.sent)) = 2
                 /\ \A i \in Protective(r.sent) :
                       r.sent[i].symbol = call[1] /\ r.sent[i].qty = call[3][1]

\* the methods place_order, get_chart_data and the wallet calls send
Methods ==
    {"place_order", "get_orders", "get_open_orders", "amend_active_order",
     "kline", "get_wallet_balance", "get_order"}

\* C15: _send_request never raises; when the client is uninitialised, the
\* method is unknown, the call throws, the response is not a dict or the
\* status code is not 0, it returns an empty result.
C15_SendRequestNeverRaises ==
    \A method \in Methods, callable \in BOOLEAN, raw \in RawReplies,
       payload \in Payloads :
       LET a == _send_request(client, method, callable, raw, payload)
       IN  /\ ~a.raised
           /\ (client = "None" \/ ~callable \/ raw # "ok") => a.result = EmptyResult

\* a process whose client handed a request to the exchange
C15_Witness == client # "None" /\ exchange # <<>>

\* C16: in a process configured for real trading no place_order call changes
\* the virtual ledger, orders or positions; in a process configured for
\* virtual trading no order is sent to the exchange.
C16_ModeFixedByConfiguration ==
    /\ use_real =>
          /\ wallet \in InitialFiles /\ file \in InitialFiles
          /\ orders = <<>> /\ positions = <<>>
    /\ ~use_real => exchange = <<>>

-----------------------------------------------------------------------------
(* The scan cycle *)

\* the trade records a cycle with outcome r added to the store
AddedTrades(r) == SubSeq(r.st.trades, Len(trades) + 1, Len(r.st.trades))

\* C12: after a scan cycle every order place_order placed successfully in
\* the cycle has a trade record, and the records of the order have virtual =
\* false when it was executed on the real path and true when on the virtual.
C12_PlacedOrdersRecorded ==
    \A raws \in Scans, top_n \in TopNs, env \in CycleEnvs :
       LET r == run_once(raws, top_n, env)
           added == AddedTrades(r)
       IN  r.raised = "none" =>
              \A i \in DOMAIN r.placed :
                 /\ \E j \in DOMAIN added : added[j].order_id = r.placed[i].order_id
                 /\ \A j \in DOMAIN added :
                       added[j].order_id = r.placed[i].order_id
                          => added[j].virtual = ~r.placed[i].real

\* C17: whatever happens to the execution of a ranked signal, every ranked
\* signal of the cycle is passed to place_order and the cycle makes its
\* reports.
C17_FailureDoesNotStopCycle ==
    \A raws \in Scans, top_n \in TopNs, env \in CycleEnvs :
       LET r == run_once(raws, top_n, env)
       IN  r.top # <<>> => (r.calls = r.top /\ r.reported)

\* C18: a signal rejected because SL, TP, leverage or margin_usdt is missing
\* changes neither the ledger nor the orders nor the positions (here: a cycle
\* whose only executed signal is the rejected one).
C18_RejectionBeforeMutation ==
    \A raws \in Scans, top_n \in TopNs, env \in CycleEnvs :
       LET r == run_once(raws, top_n, env)
       IN  (r.raised = "ValueError" /\ Len(r.calls) = 1) =>
              /\ r.st.wallet = wallet /\ r.st.file = file
              /\ r.st.orders = orders
              /\ r.st.positions = positions

\* the symbols, in scan order from the n-th on, for which analyze returned a
\* signal, each with the score of its signal
RECURSIVE Found(_, _)
Found(raws, n) ==
    IF n > Len(raws) THEN <<>>
    ELSE (IF raws[n].some THEN <<<<raws[n].Symbol, raws[n].score>>>> ELSE <<>>)
         \o Found(raws, n + 1)

\* C19: a symbol without a signal is no error and adds nothing to the signal
\* list; every symbol with a signal adds exactly one entry, its own.
C19_OneEntryPerSignal ==
    \A raws \in Scans, top_n \in TopNs, env \in CycleEnvs :
       LET r == run_once(raws, top_n, env)
       IN  /\ r.raised # "UnboundLocalError"
           /\ [i \in DOMAIN r.signals |-> <<r.signals[i].Symbol, r.signals[i].score>>]
                 = Found(raws, 1)

\* C20: in a cycle whose scan builds a signal list, place_order is called
\* exactly once for each of the N highest-scored signals of the list (N the
\* TOP_N_SIGNALS setting), in descending score order, and for no other signal.
C20_TopNExecutedInOrder ==
    \A raws \in Scans, top_n \in TopNs, env \in CycleEnvs :
       LET r == run_once(raws, top_n, env)
       IN  r.raised # "UnboundLocalError" =>
              /\ Len(r.calls) = Min(top_n, Len(r.signals))
              /\ \A i \in DOMAIN r.calls : \E j \in DOMAIN r.signals : r.calls[i] = r.signals[j]
              /\ \A i, j \in DOMAIN r.calls :
                    /\ i < j => r.calls[i].score >= r.calls[j].score
                    /\ i # j => r.calls[i] # r.calls[j]
              /\ \A j \in DOMAIN r.signals :
                    (\A i \in DOMAIN r.calls : r.calls[i] # r.signals[j])
                       => \A i \in DOMAIN r.calls : r.calls[i].score >= r.signals[j].score

\* C21: scan cycles never overlap: run_once is entered only when no cycle is
\* running, the previous one (if any) has returned or failed, and the whole
\* countdown that followed it has elapsed.
C21_CyclesNeverOverlap ==
    [][(phase' = "Running" /\ phase # "Running")
          => /\ phase = "Countdown" /\ remaining = 0
             /\ outcome \in {"none", "returned", "failed"}
             /\ (outcome = "none") = (budget = MaxCycles)]_vars

\* a second cycle is running, entered after a cycle that failed
C21_Witness == phase = "Running" /\ outcome = "failed" /\ budget < MaxCycles

-----------------------------------------------------------------------------
(* The virtual path: validation, housekeeping, protective orders *)

\* C27: a virtual place_order whose price is absent, zero or negative is
\* rejected (no order is opened or modified) and changes neither the ledger
\* nor the orders nor the positions.
C27_UnpricedOrderRejected ==
    \A symbol \in Symbols, side \in Sides, intent \in Intents,
       candles \in Candles, now \in Times :
       intent[2] <= 0 =>
          LET r == Placed(symbol, side, intent[1], intent[2], candles, now)
          IN  /\ r.result \notin {"opened", "modified"}
              /\ r.wallet = wallet
              /\ r.orders = orders
              /\ r.positions = positions

\* a step of monitor_virtual_orders
MonitorStep ==
    /\ orders' = filled_orders(orders)
    /\ positions' = active_positions(positions)
    /\ budget' = budget - 1
    /\ clock' = clock /\ trades' = trades /\ closures' = closures

\* C29: monitor_virtual_orders is idempotent (a second run right after a run
\* changes no order and no position), it never changes whether a position is
\* open or closed, and it never changes the capital ledger.
C29_MonitorIdempotent ==
    /\ [](LET os == filled_orders(orders)
              ps == active_positions(positions)
          IN  /\ filled_orders(os) = os
              /\ active_positions(ps) = ps
              /\ Len(ps) = Len(positions)
              /\ \A i \in DOMAIN positions : ps[i].status = positions[i].status)
    /\ [][MonitorStep => (wallet' = wallet /\ file' = file)]_vars

\* monitor_virtual_orders has run on an open order and its open position
C29_Witness ==
    /\ \E i \in DOMAIN orders : orders[i].status = "filled"
    /\ \E i \in DOMAIN positions :
          positions[i].status = "open" /\ positions[i].fill_time

\* C30: a virtual place_order that opens a position records exactly one
\* parent order, one position and two protective orders (take-profit and
\* stop-loss) that carry the id of the parent; the protective orders reserve
\* no margin: after the close of an earlier position (if any), available goes
\* down and used goes up by the margin of the parent and by nothing else.
C30_OpenRecordsParentAndProtectives ==
    \A symbol \in Symbols, side \in Sides, intent \in Intents,
       candles \in Candles, now \in Times :
       LET r == Placed(symbol, side, intent[1], intent[2], candles, now)
           c == close_virtual_position(positions, wallet, symbol,
                                       get_chart_data(client, candles))
           n == Len(orders)
       IN  r.result = "opened" =>
              /\ Len(r.orders) = n + 3
              /\ SubSeq(r.orders, 1, n) = orders
              /\ ~r.orders[n + 1].reduce_only /\ r.orders[n + 1].suffix = ""
              /\ r.orders[n + 1].has_margin /\ r.orders[n + 1].margin = r.margin
              /\ {r.orders[n + 2].suffix, r.orders[n + 3].suffix} = {"_TP", "_SL"}
              /\ \A k \in {n + 2, n + 3} :
                    /\ r.orders[k].reduce_only
                    /\ r.orders[k].order_id = r.orders[n + 1].order_id
                    /\ ~r.orders[k].has_margin
              /\ Len(r.positions) = Len(positions) + 1
              /\ r.positions[Len(r.positions)].order_id = r.orders[n + 1].order_id
              /\ r.positions[Len(r.positions)].status = "open"
              /\ Get(r.wallet, "used") = Get(c.wallet, "used") + r.margin
              /\ Get(r.wallet, "available") = Get(c.wallet, "available") - r.margin

\* C31: the protective prices are direction-aware and the same on both
\* paths: for a Buy parent the take-profit is above the entry price and the
\* stop-loss below it, for a Sell parent the take-profit is below the entry
\* price and the stop-loss above it, and the virtual path uses the offsets
\* from entry that place_tp_sl_limit_orders uses on the real path.
C31_ProtectivePricesDirectionAware ==
    \A symbol \in Symbols, side \in Sides, intent \in Intents,
       candles \in Candles, now \in Times :
       LET r == Placed(symbol, side, intent[1], intent[2], candles, now)
           n == Len(orders)
           entry_price == PriceUsed(intent[2])
           entry == entry_price * 100
           tp == r.orders[n + 2].price
           sl == r.orders[n + 3].price
           real == tp_sl_prices(entry_price)
       IN  r.result = "opened" =>
              /\ side = "Buy" => (tp > entry /\ sl < entry)
              /\ side = "Sell" => (tp < entry /\ sl > entry)
              /\ side = "Buy" => (real.tp > entry /\ real.sl < entry)
              /\ side = "Sell" => (real.tp < entry /\ real.sl > entry)
              /\ tp - entry = real.tp - entry
              /\ sl - entry = real.sl - entry

\* the number a formatted quantity denotes, in ten-thousandths
Denoted(f) ==
    LET n == Len(f.decimals)
        RECURSIVE Digits(_)
        Digits(i) == IF i = 0 THEN 0 ELSE 10 * Digits(i - 1) + f.decimals[i]
    IN  f.whole * One + Digits(n) * Pow10(4 - n)

\* C28: on the real path the quantity sent is the multiple of the lot step
\* nearest to the quantity asked for, written with exactly as many decimal
\* places as the step has (0.001: three, 0.01: two, 0.5: one, 1: none).
C28_QuantityFormattedToStep ==
    RealPath =>
       \A qty \in RequestedQtys, qty_step \in LotSteps :
          LET f == formatted_qty(qty, qty_step)
          IN  /\ Denoted(f) % qty_step = 0
              /\ 2 * Max(Denoted(f) - qty, qty - Denoted(f)) <= qty_step
              /\ Len(f.decimals) = Decimals(qty_step)

\* C38: each order placed gives rise to one trade record: over a scan cycle
\* no order_id is passed to the add_trade of the trade store more than once.
C38_OneTradeRecordPerOrder ==
    \A raws \in Scans, top_n \in TopNs, env \in CycleEnvs :
       LET added == AddedTrades(run_once(raws, top_n, env))
       IN  \A i \in DOMAIN added, j \in DOMAIN added :
              i # j => added[i].order_id # added[j].order_id

\* C39: the scan loop stays live: after any cycle, one in which run_once
\* raised an exception included, the countdown runs and the next cycle starts
\* (as long as the run has cycles left).
C39_LoopStaysLive ==
    \A b \in 2..MaxCycles :
       /\ (phase = "Running" /\ budget = b)
             ~> (phase = "Countdown" /\ remaining = scan_interval /\ budget = b - 1)
       /\ \A o \in {"returned", "failed"} :
             (phase = "Countdown" /\ remaining = scan_interval
              /\ outcome = o /\ budget = b - 1)
                ~> (phase = "Running" /\ remaining = 0
                    /\ outcome = o /\ budget = b - 1)

\* the cycle after a failed one has started, its countdown over
C39_Witness ==
    outcome = "failed" /\ phase = "Running" /\ remaining = 0 /\ budget > 0

-----------------------------------------------------------------------------
(* Closing, reversing and modifying *)

\* C32: every close of an open virtual position reports the closed trade to
\* the trade store exactly once, with the order id of the position, its
\* realized PnL and the exit price from which that PnL was computed.
C32_CloseReportedOnce ==
    [][\A i \in DOMAIN positions :
          (positions[i].status = "open" /\ positions'[i].status = "closed") =>
             /\ Len(closures') = Len(closures) + 1
             /\ LET closed_trade == closures'[Len(closures')]
                IN  /\ closed_trade.order_id = positions[i].order_id
                    /\ closed_trade.pnl = positions'[i].realized_pnl
                    /\ closed_trade.pnl
                          = ClaimedPnl(positions[i], closed_trade.exit_price)]_vars

\* C33: order ids are unique: no two parent orders created by the virtual
\* place_order share an order_id, orders created within the same millisecond
\* included.
C33_OrderIdsUnique ==
    \A i \in ParentOrders, j \in ParentOrders :
       i # j => orders[i].order_id # orders[j].order_id

\* C34: a virtual place_order that finds an open order for the same symbol
\* and side, with capital for the margin increase, is a modification:
\* available changes by -(new margin - old margin) and used by
\* +(new margin - old margin), qty, price and margin of that order and of
\* its linked position are updated, and the numbers of orders, of positions
\* and of protective orders are unchanged.
C34_ModificationInPlace ==
    \A symbol \in Symbols, side \in Sides, intent \in Intents,
       candles \in Candles, now \in Times :
       LET r == Placed(symbol, side, intent[1], intent[2], candles, now)
           e == existing_order(orders, symbol, side)
       IN  (e # 0 /\ RequiredMargin(symbol, side, r.margin) <= Available) =>
              /\ r.result = "modified"
              /\ Get(r.wallet, "available") = Available - (r.margin - orders[e].margin)
              /\ Get(r.wallet, "used") = Used + (r.margin - orders[e].margin)
              /\ r.orders[e].qty = intent[1]
              /\ r.orders[e].price = intent[2] * 100
              /\ r.orders[e].margin = r.margin
              /\ \A j \in PositionOf(orders[e]) :
                    /\ r.positions[j].qty = intent[1]
                    /\ r.positions[j].price = intent[2]
                    /\ r.positions[j].margin = r.margin
              /\ Len(r.orders) = Len(orders)
              /\ Len(r.positions) = Len(positions)
              /\ {i \in DOMAIN r.orders : r.orders[i].reduce_only}
                    = {i \in DOMAIN orders : orders[i].reduce_only}

\* C35: with a position open on a symbol, a virtual place_order on the other
\* side with capital for its margin returns normally, closes the open
\* position realizing its PnL and leaves exactly one open position on the
\* symbol, on the new side; and the existing order a call finds is never a
\* protective order.
C35_ReversingSide ==
    \A symbol \in Symbols, side \in Sides, intent \in Intents,
       candles \in Candles, now \in Times :
       LET r == Placed(symbol, side, intent[1], intent[2], candles, now)
           e == existing_order(orders, symbol, side)
           i == open_position(positions, symbol)
       IN  /\ e # 0 => ~orders[e].reduce_only
           /\ (i # 0 /\ positions[i].side # side /\ r.margin <= Available) =>
                 /\ r.result = "opened"
                 /\ r.closed = i
                 /\ r.positions[i].status = "closed" /\ r.positions[i].has_pnl
                 /\ {j \in DOMAIN r.positions :
                        r.positions[j].symbol = symbol /\ r.positions[j].status = "open"}
                       = {Len(r.positions)}
                 /\ r.positions[Len(r.positions)].side = side

\* C36: when a virtual place_order that opens a position closes the position
\* open on the symbol, the margin of the old position is refunded once and
\* its PnL credited once: available changes by old margin + old PnL - new
\* margin, and used by new margin - old margin.
C36_ImplicitCloseCreditedOnce ==
    \A symbol \in Symbols, side \in Sides, intent \in Intents,
       candles \in Candles, now \in Times :
       LET r == Placed(symbol, side, intent[1], intent[2], candles, now)
       IN  (r.result = "opened" /\ r.closed # 0) =>
              LET old == positions[r.closed]
                  pnl == r.positions[r.closed].realized_pnl
              IN  /\ Get(r.wallet, "available") = Available + old.margin + pnl - r.margin
                  /\ Get(r.wallet, "used") = Used + r.margin - old.margin

\* C37: in every reachable state of the virtual path, used is the sum of the
\* margins of the positions whose status is open.
C37_UsedIsSumOfOpenMargins ==
    Get(wallet, "used") = SumMargins(positions, OpenPositions)

-----------------------------------------------------------------------------
(* The persisted capital state *)

\* C22: a load of the persisted capital state made while a writer is saving
\* it never finds an empty or partially written file: every load returns a
\* whole document (the one before the write or the one after it).
C22_ReaderSeesWholeDocument == seen.status \in {"nothing", "loaded"}

\* C23: capital writes are serialized: when no write is under way, the
\* persisted real and virtual records are what the ledger mutations of
\* place_order and the saves of the engine, applied one after the other,
\* add up to; no write is overwritten from a stale in-memory copy.
C23_WritesSerialized ==
    (pending = NoWrite /\ disk.state = "whole" /\ ledger.state = "whole")
       => /\ disk.doc.real = ledger.doc.real
          /\ disk.doc.virtual = ledger.doc.virtual

\* C24: when the process started without a persisted capital state and no
\* capital has been written since, the load of capital of the engine returns
\* a real record of capital 0 and a virtual record of capital 100, and both
\* are persisted when it returns.
C24_FirstLoadInitialises ==
    (ledger = Missing /\ memory["engine.client"].loaded /\ pending = NoWrite)
       => LET r == loaded(disk, "all")
              got == load_capital(r.returned.doc, "all")
          IN  /\ r.returned.status = "loaded"
              /\ Field(got.real, "capital", -1) = 0
              /\ Field(got.virtual, "capital", -1) = StartingBalance
              /\ r.disk.state = "whole"
              /\ r.disk.doc.real = got.real
              /\ r.disk.doc.virtual = got.virtual

\* C25: a sync of the real balance overwrites capital, available, used and
\* currency of the real record from the balance fetched (available + used =
\* capital), keeps a start_balance the record already has, and leaves the
\* virtual record as it is.
C25_SyncRealOverwritesRealRecord ==
    (disk.state = "whole" /\ pending = NoWrite)
       => \A balance \in Balances :
             LET synced == update_usdt_capital(InstanceAttributes, disk.doc, balance)
             IN  /\ Field(synced.real, "capital", -1) = balance[1]
                 /\ Field(synced.real, "available", -1) = balance[2]
                 /\ Field(synced.real, "used", -1) = balance[1] - balance[2]
                 /\ Field(synced.real, "currency", "none") = "USDT"
                 /\ "start_balance" \in disk.doc.real.has
                       => synced.real.start_balance = disk.doc.real.start_balance
                 /\ synced.virtual = disk.doc.virtual

\* C26: the persisted capital round-trips: a record saved for a mode is the
\* record loaded back for it (capital, available, used, start_balance,
\* currency), and saving the record just loaded leaves the persisted document
\* as it was.
C26_CapitalRoundTrips ==
    (disk.state = "whole" /\ pending = NoWrite)
       => \A mode \in Modes :
             /\ \A data \in SavedRecords :
                   load_capital(save_capital(disk.doc, mode, data), mode) = data
             /\ save_capital(disk.doc, mode, load_capital(disk.doc, mode)) = disk.doc

-----------------------------------------------------------------------------
(* Restarts *)

\* the state BybitClient.__init__ leaves: no order and no position
Restored == orders = <<>> /\ positions = <<>>

\* C10: a state restored from capital.json after the process stopped in
\* place_order or close_virtual_position has no margin counted in used:
\* no order and no position is restored with it.
C10_NoMarginWithoutOrderAfterRestart ==
    Restored => Used = 0

=============================================================================
